---- MODULE Spec2Model ----
(***************************************************************************)
(* A model of coinsnake's price tracker (src/coinsnake/price.py): the      *)
(* per-ticker PriceHistory (tick buffer, candle history, last price), the  *)
(* PriceTracker that owns the table of tickers, and the events it fires.   *)
(*                                                                         *)
(* Numbers.  The program works on Python floats.  Here a price or a tick   *)
(* volume is an integer (a float holding a whole number, negative ones     *)
(* included: the code accepts them), and the result of a float division    *)
(* is held exactly, as a reduced fraction <<numerator, denominator>> with  *)
(* a positive denominator.  Rounding is not modelled; a division by zero   *)
(* raises ZeroDivisionError, as Python's float division does.              *)
(*                                                                         *)
(* Labels.  A ticker label is a sequence of one-character strings, so that *)
(* str.upper() is computed character by character.                         *)
(*                                                                         *)
(* Scheduling.  The program runs on the Twisted reactor, one callback at   *)
(* a time: every handler is one atomic action.  The one caller of add_all  *)
(* (Poloniex.get_history_for_all_tickers) imports every history before it  *)
(* runs the push API whose on_join starts the timer, so a backfill comes   *)
(* before the first timer firing.                                          *)
(*                                                                         *)
(* Timer.  start() arms a twisted LoopingCall.  The reactor fires every    *)
(* armed LoopingCall once per interval; a call that raises disarms its     *)
(* LoopingCall (running becomes False), the object staying where it is.    *)
(*                                                                         *)
(* Specifications.  Spec is the tracker driven through PriceTracker's own  *)
(* methods.  SpecSeries is the tracker with a client that also records     *)
(* ticks on the PriceHistory objects get() returns, whose add() checks no  *)
(* types.  SpecServer is the event dispatcher (src/coinsnake/event.py) on   *)
(* top of the stream server (src/coinsnake/web/server.py): connections     *)
(* register and unregister, and the dispatcher's handlers are called with  *)
(* the arguments ObservableMixin.fire hands to a listener.                 *)
(***************************************************************************)
EXTENDS Integers, Sequences, FiniteSets, TLC

VARIABLES
    tickers,                \* PriceTracker.tickers: label -> PriceHistory
    process_buffers_task,   \* PriceTracker._process_buffers_task: "None", or the state
                            \* of the LoopingCall it holds: "running" or "stopped"
    looping_calls,          \* number of LoopingCalls armed in the reactor
    raised,                 \* the exception the last call raised, or "None"
    events,                 \* the events the last call fired, in order
    n_add,                  \* number of accepted add calls so far
    n_add_all,              \* number of add_all calls so far
    n_process,              \* number of timer firings so far
    steps,                  \* what the last call did if it was process_buffers, in
                            \* order: the events fired and the process_buffer calls
    clients,                \* CoinStreamServerFactory.clients, a list of connections
    broadcasts,             \* the messages the last call handed to broadcast, in order
    sent                    \* the sendMessage calls of the last call: (client, payload)

server_vars == <<clients, broadcasts, sent>>
vars ==
    <<tickers, process_buffers_task, looping_calls, raised, events, n_add, n_add_all,
      n_process, steps, clients, broadcasts, sent>>

(***************************************************************************)
(* Bounds of the model.                                                    *)
(***************************************************************************)
MaxAdd == 3          \* accepted ticks per behaviour
MaxProcess == 2      \* timer firings per behaviour
MaxAddAll == 1       \* backfill imports per behaviour

(***************************************************************************)
(* Program constants.                                                      *)
(***************************************************************************)
PRICE_HISTORY_RESOLUTION == 60
CHANGE_INTERVALS == <<1, 5, 15, 60, 360, 720, 1440, 2880>>

(***************************************************************************)
(* Input values.                                                           *)
(***************************************************************************)
Labels == {<<"b", "_", "e">>, <<"B", "_", "E">>}
\* ticks (price, volume); the code takes negative values like any other float
Ticks == {<<0, 1>>, <<2, 2>>, <<-1, -1>>}
\* source candles of a backfill, (high, low, open, close, volume)
CandleA == <<2, 0, 1, 2, 4>>
CandleB == <<2, 0, 2, 0, 1>>
\* the lists of source candles a backfill is called with
SourcePrices == {<<>>, <<CandleA>>, <<CandleB, CandleA>>}
Intervals == {30, 60, 90, 300}

\* a Python argument: its type and its value
PyStr(s) == [type |-> "str", val |-> s]
PyFloat(x) == [type |-> "float", val |-> x]
PyInt(x) == [type |-> "int", val |-> x]
PyBytes(s) == [type |-> "bytes", val |-> s]
PyNone == [type |-> "NoneType", val |-> "None"]
\* the argument lists of add: every tick under every label, and one list for each
\* argument of the wrong type
AddArgs ==
    {<<PyStr(l), PyFloat(t[1]), PyFloat(t[2])>> : l \in Labels, t \in Ticks}
    \cup {<<PyBytes(<<"B", "_", "E">>), PyFloat(1), PyFloat(1)>>,
          <<PyStr(<<"B", "_", "E">>), PyInt(1), PyFloat(1)>>,
          <<PyStr(<<"B", "_", "E">>), PyFloat(1), PyInt(1)>>}

\* the ticks a client records on a series it got from get(): PriceHistory.add
\* takes whatever it is given, here a float price with a volume of None
SeriesTicks == {<<2, PyNone>>}

(***************************************************************************)
(* Float arithmetic.                                                       *)
(***************************************************************************)
Abs(x) == IF x < 0 THEN -x ELSE x

RECURSIVE GCD(_, _)
GCD(a, b) == IF b = 0 THEN a ELSE GCD(b, a % b)

\* n / d for d # 0, as a reduced fraction with a positive denominator
Quot(n, d) ==
    LET g == GCD(Abs(n), Abs(d))
        s == IF d < 0 THEN -1 ELSE 1
    IN  <<(s * n) \div g, (s * d) \div g>>

\* the float 0.0 as a fraction, and a whole number as a fraction
Zero == <<0, 1>>
Whole(x) == <<x, 1>>

\* str.upper()
UpperChar(c) == CASE c = "b" -> "B" [] c = "e" -> "E" [] OTHER -> c
Upper(s) == [i \in 1..Len(s) |-> UpperChar(s[i])]

(***************************************************************************)
(* PriceHistory                                                            *)
(***************************************************************************)
\* PriceHistory.__init__
PriceHistory(ticker) ==
    [ticker |-> Upper(ticker), history |-> <<>>, last |-> 1, buffer |-> <<>>]

\* PriceHistory.add, up to the call of str(self): the tick is recorded.  A buffered
\* tick is (price, volume), the volume with its Python type: nothing on the way to
\* the buffer converts it
ph_add(ph, price, volume) ==
    [ph EXCEPT !.last = price, !.buffer = Append(@, <<price, volume>>)]

\* mutant of indexes: an interval beyond the history falls back to the first interval
RECURSIVE indexes_falls_to_first(_, _)
indexes_falls_to_first(i, max_history) ==
    IF i = 0 THEN <<>>
    ELSE LET prev == indexes_falls_to_first(i - 1, max_history)
         IN  IF CHANGE_INTERVALS[i] <= max_history
             THEN Append(prev, CHANGE_INTERVALS[i])
             ELSE Append(prev, CHANGE_INTERVALS[1])

\* PriceHistory.changes, the list "indexes" after i rounds of its loop
RECURSIVE indexes(_, _)
indexes(i, max_history) ==
    IF i = 0 THEN <<>>
    ELSE LET prev == indexes(i - 1, max_history)
         IN  IF CHANGE_INTERVALS[i] <= max_history
             THEN Append(prev, CHANGE_INTERVALS[i])
             ELSE Append(prev, prev[i - 1])

\* history[-1 * x][3], the closing price x candles back
close_back(ph, x) == ph.history[Len(ph.history) + 1 - x][4]

\* PriceHistory.changes: the tuple of changes, or the exception the property raises
changes(ph) ==
    LET max_history == Len(ph.history)
        idx == indexes(Len(CHANGE_INTERVALS), max_history)
    IN  IF max_history < 2
        THEN [raised |-> "None", value |-> [i \in 1..Len(CHANGE_INTERVALS) |-> Zero]]
        ELSE IF \E i \in 1..Len(idx) : close_back(ph, idx[i]) = 0
        THEN [raised |-> "ZeroDivisionError", value |-> <<>>]
        ELSE [raised |-> "None",
              value |-> [i \in 1..Len(idx) |->
                  Quot((ph.last - close_back(ph, idx[i])) * 100, close_back(ph, idx[i]))]]

\* mutant of buffer_step: p_close is not updated in the loop
buffer_step_keeps_close(acc, val, vol) ==
    [acc EXCEPT !.low = IF val < acc.low THEN val ELSE @,
                !.high = IF ~(val < acc.low) /\ val > acc.high THEN val ELSE @,
                !.volume = @ + vol.val]

\* PriceHistory.process_buffer, one round of the loop over the rest of the buffer
buffer_step(acc, val, vol) ==
    [acc EXCEPT !.low = IF val < acc.low THEN val ELSE @,
                !.high = IF ~(val < acc.low) /\ val > acc.high THEN val ELSE @,
                !.close = val,
                !.volume = @ + vol.val]

RECURSIVE buffer_loop(_, _, _)
buffer_loop(buf, i, acc) ==
    IF i > Len(buf) THEN acc
    ELSE buffer_loop(buf, i + 1, buffer_step(acc, buf[i][1], buf[i][2]))

\* PriceHistory.process_buffer, "p_volume += vol" raises TypeError: there is a tick
\* after the first and one of the volumes summed is no number
process_buffer_raises(ph) ==
    /\ Len(ph.buffer) >= 2
    /\ \E i \in 1..Len(ph.buffer) : ph.buffer[i][2].type # "float"

\* the values (p_high, p_low, p_open, p_close, p_volume) after the loop over a
\* non-empty buffer whose sum does not raise; the volume of a single tick is
\* taken as it is
buffer_candle(buf) ==
    IF Len(buf) = 1
    THEN [high |-> buf[1][1], low |-> buf[1][1], open |-> buf[1][1], close |-> buf[1][1],
          volume |-> IF buf[1][2].type = "float" THEN Whole(buf[1][2].val) ELSE buf[1][2]]
    ELSE LET p_value == buf[1][1]
             acc == buffer_loop(Tail(buf), 1,
                       [high |-> p_value, low |-> p_value, open |-> p_value,
                        close |-> p_value, volume |-> buf[1][2].val])
         IN  [acc EXCEPT !.volume = Whole(@)]

\* the candle appended for an empty buffer
flat_candle(last) == <<last, last, last, last, Zero>>

\* mutant of process_buffer: an empty buffer appends nothing
process_buffer_skips_empty(ph) ==
    IF ph.buffer # <<>>
    THEN LET acc == buffer_candle(ph.buffer)
         IN  [ph EXCEPT !.history = Append(@, <<acc.high, acc.low, acc.open, acc.close,
                                                acc.volume>>),
                        !.buffer = <<>>]
    ELSE ph

\* mutant of process_buffer: the history keeps only the newest candle
process_buffer_keeps_newest(ph) ==
    IF ph.buffer # <<>>
    THEN LET acc == buffer_candle(ph.buffer)
         IN  [ph EXCEPT !.history = <<<<acc.high, acc.low, acc.open, acc.close,
                                        acc.volume>>>>,
                        !.buffer = <<>>]
    ELSE [ph EXCEPT !.history = <<flat_candle(ph.last)>>, !.buffer = <<>>]

\* PriceHistory.process_buffer without line 101, which clears the buffer
process_buffer_keeps_buffer(ph) ==
    IF ph.buffer # <<>>
    THEN LET acc == buffer_candle(ph.buffer)
         IN  [ph EXCEPT !.history = Append(@, <<acc.high, acc.low, acc.open, acc.close,
                                                acc.volume>>)]
    ELSE [ph EXCEPT !.history = Append(@, flat_candle(ph.last))]

\* PriceHistory.process_buffer
process_buffer(ph) ==
    IF ph.buffer # <<>>
    THEN LET acc == buffer_candle(ph.buffer)
         IN  [ph EXCEPT !.history = Append(@, <<acc.high, acc.low, acc.open, acc.close,
                                                acc.volume>>),
                        !.buffer = <<>>]
    ELSE [ph EXCEPT !.history = Append(@, flat_candle(ph.last)), !.buffer = <<>>]

\* PriceHistory.__str__, the number of intervals it prints: the loop stops at the
\* first interval the history does not exceed
RECURSIVE str_index(_, _)
str_index(ph, i) ==
    IF i > Len(CHANGE_INTERVALS) THEN 0
    ELSE IF Len(ph.history) > CHANGE_INTERVALS[i] THEN 1 + str_index(ph, i + 1)
    ELSE 0

\* the heading of one printed interval: minutes below 60, hours from there on
str_heading(val) ==
    IF val < 60 THEN [n |-> val, unit |-> "m"] ELSE [n |-> val \div 60, unit |-> "h"]

\* PriceHistory.__str__: what the string shows (ticker, last price and the printed
\* changes with their headings), or the exception self.changes raises
ph_str(ph) ==
    LET c == changes(ph)
        index == str_index(ph, 1)
    IN  IF c.raised # "None" THEN [raised |-> c.raised, value |-> <<>>]
        ELSE [raised |-> "None",
              value |-> [ticker |-> ph.ticker, last |-> ph.last,
                         shown |-> [i \in 1..index |->
                             <<str_heading(CHANGE_INTERVALS[i]), c.value[i]>>]]]

(***************************************************************************)
(* PriceTracker                                                            *)
(***************************************************************************)
\* "if ticker_label not in self.tickers: self.tickers[ticker_label] = PriceHistory(...)"
with_ticker(tk, ticker_label) ==
    IF ticker_label \in DOMAIN tk THEN tk
    ELSE [l \in DOMAIN tk \cup {ticker_label} |->
             IF l = ticker_label THEN PriceHistory(ticker_label) ELSE tk[l]]

\* self.fire(event, *args): the event as the listeners get it
ticker_update(ticker_label, ticker_string) ==
    [event |-> "cs.ticker.update", args |-> <<ticker_label, ticker_string>>]
notice(event) == [event |-> event, args |-> <<>>]

\* a call that raises before it changes anything
Raise(exception) ==
    /\ UNCHANGED server_vars
    /\ steps' = <<>>
    /\ raised' = exception
    /\ events' = <<>>
    /\ UNCHANGED <<tickers, process_buffers_task, looping_calls, n_add, n_add_all, n_process>>

\* mutant of add: the tick lands in the buffer of every series
add_into_every_buffer(ticker_label, price, volume) ==
    /\ UNCHANGED server_vars
    /\ steps' = <<>>
    /\ n_add < MaxAdd
    /\ IF ticker_label.type # "str" \/ price.type # "float" \/ volume.type # "float"
       THEN Raise("TypeError")
       ELSE LET label == ticker_label.val
                tk == with_ticker(tickers, label)
                ph == ph_add(tk[label], price.val, volume)
                s == ph_str(ph)
            IN  /\ tickers' = [l \in DOMAIN tk |->
                                  IF l = label THEN ph
                                  ELSE [tk[l] EXCEPT !.buffer = ph.buffer]]
                /\ raised' = s.raised
                /\ events' = IF s.raised # "None" THEN <<>>
                             ELSE <<ticker_update(label, s.value)>>
                /\ n_add' = n_add + 1
                /\ UNCHANGED <<process_buffers_task, looping_calls, n_add_all, n_process>>

\* PriceTracker.add
add(ticker_label, price, volume) ==
    /\ UNCHANGED server_vars
    /\ steps' = <<>>
    /\ n_add < MaxAdd
    /\ IF ticker_label.type # "str" \/ price.type # "float" \/ volume.type # "float"
       THEN Raise("TypeError")
       ELSE LET label == ticker_label.val
                tk == with_ticker(tickers, label)
                ph == ph_add(tk[label], price.val, volume)
                s == ph_str(ph)
            IN  /\ tickers' = [tk EXCEPT ![label] = ph]
                /\ raised' = s.raised
                /\ events' = IF s.raised # "None" THEN <<>>
                             ELSE <<ticker_update(label, s.value)>>
                /\ n_add' = n_add + 1
                /\ UNCHANGED <<process_buffers_task, looping_calls, n_add_all, n_process>>

\* mutant of duplicate: the close of the last copy is not restored
duplicate_all_open(p, duplications) ==
    [i \in 1..duplications |-> <<p[1], p[2], p[3], p[3], Quot(p[5], duplications)>>]

\* PriceTracker.add_all, the copies made of one price point
duplicate(p, duplications) ==
    [i \in 1..duplications |->
        <<p[1], p[2], p[3],
          IF i = duplications THEN p[4] ELSE p[3],
          Quot(p[5], duplications)>>]

\* PriceTracker.add_all, the list price_points after the loop over the first n prices
RECURSIVE price_points(_, _, _)
price_points(prices, n, duplications) ==
    IF n = 0 THEN <<>>
    ELSE price_points(prices, n - 1, duplications) \o duplicate(prices[n], duplications)

\* PriceTracker.add_all, if it also emptied the buffer of the series
add_all_clears_buffer(ticker_label, prices, interval) ==
    /\ UNCHANGED server_vars
    /\ steps' = <<>>
    /\ n_add_all < MaxAddAll
    /\ n_add_all' = n_add_all + 1
    /\ UNCHANGED <<process_buffers_task, looping_calls, n_add, n_process>>
    /\ LET tk == with_ticker(tickers, ticker_label)
           duplications == interval \div PRICE_HISTORY_RESOLUTION
           points == price_points(prices, Len(prices), duplications)
           ph == [tk[ticker_label] EXCEPT !.history = points, !.buffer = <<>>]
           ph_last == [ph EXCEPT !.last = points[Len(points)][4]]
           s == ph_str(ph_last)
       IN  IF duplications = 0 /\ prices # <<>>
           THEN \* duplicated[duplications - 1] of an empty list
                /\ tickers' = tk
                /\ raised' = "IndexError"
                /\ events' = <<>>
           ELSE IF points = <<>>
           THEN \* price_points[-1] of an empty list, after ph.history was set
                /\ tickers' = [tk EXCEPT ![ticker_label] = ph]
                /\ raised' = "IndexError"
                /\ events' = <<>>
           ELSE /\ tickers' = [tk EXCEPT ![ticker_label] = ph_last]
                /\ raised' = s.raised
                /\ events' = IF s.raised # "None" THEN <<>>
                             ELSE <<ticker_update(ticker_label, s.value)>>

\* PriceTracker.add_all
add_all(ticker_label, prices, interval) ==
    /\ UNCHANGED server_vars
    /\ steps' = <<>>
    /\ n_add_all < MaxAddAll
    /\ n_add_all' = n_add_all + 1
    /\ UNCHANGED <<process_buffers_task, looping_calls, n_add, n_process>>
    /\ LET tk == with_ticker(tickers, ticker_label)
           duplications == interval \div PRICE_HISTORY_RESOLUTION
           points == price_points(prices, Len(prices), duplications)
           ph == [tk[ticker_label] EXCEPT !.history = points]
           ph_last == [ph EXCEPT !.last = points[Len(points)][4]]
           s == ph_str(ph_last)
       IN  IF duplications = 0 /\ prices # <<>>
           THEN \* duplicated[duplications - 1] of an empty list
                /\ tickers' = tk
                /\ raised' = "IndexError"
                /\ events' = <<>>
           ELSE IF points = <<>>
           THEN \* price_points[-1] of an empty list, after ph.history was set
                /\ tickers' = [tk EXCEPT ![ticker_label] = ph]
                /\ raised' = "IndexError"
                /\ events' = <<>>
           ELSE /\ tickers' = [tk EXCEPT ![ticker_label] = ph_last]
                /\ raised' = s.raised
                /\ events' = IF s.raised # "None" THEN <<>>
                             ELSE <<ticker_update(ticker_label, s.value)>>

\* PriceTracker.get
get(ticker_label) ==
    /\ UNCHANGED server_vars
    /\ steps' = <<>>
    /\ tickers' = with_ticker(tickers, ticker_label)
    /\ raised' = "None"
    /\ events' = <<>>
    /\ UNCHANGED <<process_buffers_task, looping_calls, n_add, n_add_all, n_process>>

\* mutant of start: a LoopingCall is armed whatever _process_buffers_task holds
start_arms_again ==
    /\ UNCHANGED server_vars
    /\ steps' = <<>>
    /\ process_buffers_task' = "running"
    /\ looping_calls' = looping_calls + 1
    /\ raised' = "None"
    /\ events' = <<>>
    /\ UNCHANGED <<tickers, n_add, n_add_all, n_process>>

\* PriceTracker.start
start ==
    /\ UNCHANGED server_vars
    /\ steps' = <<>>
    /\ IF process_buffers_task = "None"
       THEN /\ process_buffers_task' = "running"
            /\ looping_calls' = looping_calls + 1
       ELSE UNCHANGED <<process_buffers_task, looping_calls>>
    /\ raised' = "None"
    /\ events' = <<>>
    /\ UNCHANGED <<tickers, n_add, n_add_all, n_process>>

\* PriceTracker.stop
stop ==
    /\ UNCHANGED server_vars
    /\ steps' = <<>>
    /\ IF process_buffers_task # "None" /\ process_buffers_task = "running"
       THEN /\ process_buffers_task' = "None"
            /\ looping_calls' = looping_calls - 1
       ELSE UNCHANGED <<process_buffers_task, looping_calls>>
    /\ raised' = "None"
    /\ events' = <<>>
    /\ UNCHANGED <<tickers, n_add, n_add_all, n_process>>

\* the steps of a process_buffers call: an event handed to fire, and the loop of
\* lines 273-274 with the number of process_buffer calls it made on each series
fired(event) == [step |-> "fire", of |-> event]
processed(labels) == [step |-> "process_buffer", of |-> [l \in labels |-> 1]]

\* PriceTracker.process_buffers with the loop over self.tickers.values() leaving at
\* the series bad, whose process_buffer raises after it popped its first tick; the
\* series of before were processed, in some order of the dict, ahead of it
process_buffers_leaves(bad, before) ==
    /\ tickers' = [l \in DOMAIN tickers |->
                      IF l \in before THEN process_buffer(tickers[l])
                      ELSE IF l = bad THEN [tickers[l] EXCEPT !.buffer = Tail(@)]
                      ELSE tickers[l]]
    /\ raised' = "TypeError"
    /\ events' = <<notice("cs.ticker.processing_buffers")>>
    /\ steps' = <<fired("cs.ticker.processing_buffers"), processed(before \cup {bad})>>

\* PriceTracker.process_buffers, if it fired cs.message (lines 276-280) ahead of
\* its loop over the series (lines 273-274)
process_buffers_message_first ==
    /\ UNCHANGED server_vars
    /\ looping_calls > 0
    /\ n_process < MaxProcess
    /\ n_process' = n_process + 1
    /\ UNCHANGED <<n_add, n_add_all>>
    /\ IF \E l \in DOMAIN tickers : process_buffer_raises(tickers[l])
       THEN /\ \E bad \in {l \in DOMAIN tickers : process_buffer_raises(tickers[l])} :
                 \E before \in SUBSET {l \in DOMAIN tickers :
                                          ~process_buffer_raises(tickers[l])} :
                     process_buffers_leaves(bad, before)
            /\ process_buffers_task' = "stopped"
            /\ looping_calls' = looping_calls - 1
       ELSE /\ tickers' = [l \in DOMAIN tickers |-> process_buffer(tickers[l])]
            /\ raised' = "None"
            /\ events' = <<notice("cs.ticker.processing_buffers"), notice("cs.message")>>
            /\ steps' = <<fired("cs.ticker.processing_buffers"),
                          fired("cs.message"), processed(DOMAIN tickers)>>
            /\ UNCHANGED <<process_buffers_task, looping_calls>>

\* PriceTracker.process_buffers, called by the reactor for an armed LoopingCall.
\* A call that raises disarms the LoopingCall, which _process_buffers_task keeps.
process_buffers ==
    /\ UNCHANGED server_vars
    /\ looping_calls > 0
    /\ n_process < MaxProcess
    /\ n_process' = n_process + 1
    /\ UNCHANGED <<n_add, n_add_all>>
    /\ IF \E l \in DOMAIN tickers : process_buffer_raises(tickers[l])
       THEN /\ \E bad \in {l \in DOMAIN tickers : process_buffer_raises(tickers[l])} :
                 \E before \in SUBSET {l \in DOMAIN tickers :
                                          ~process_buffer_raises(tickers[l])} :
                     process_buffers_leaves(bad, before)
            /\ process_buffers_task' = "stopped"
            /\ looping_calls' = looping_calls - 1
       ELSE /\ tickers' = [l \in DOMAIN tickers |-> process_buffer(tickers[l])]
            /\ raised' = "None"
            /\ events' = <<notice("cs.ticker.processing_buffers"), notice("cs.message")>>
            /\ steps' = <<fired("cs.ticker.processing_buffers"),
                          processed(DOMAIN tickers), fired("cs.message")>>
            /\ UNCHANGED <<process_buffers_task, looping_calls>>

\* a client of the tracker: self.get(ticker_label).add(price, volume), the series'
\* own add, which checks nothing and fires nothing
series_add(ticker_label, price, volume) ==
    /\ UNCHANGED server_vars
    /\ steps' = <<>>
    /\ n_add < MaxAdd
    /\ LET tk == with_ticker(tickers, ticker_label)
           ph == ph_add(tk[ticker_label], price, volume)
       IN  /\ tickers' = [tk EXCEPT ![ticker_label] = ph]
           /\ raised' = ph_str(ph).raised
    /\ events' = <<>>
    /\ n_add' = n_add + 1
    /\ UNCHANGED <<process_buffers_task, looping_calls, n_add_all, n_process>>

(***************************************************************************)
(* CoinStreamServerFactory (src/coinsnake/web/server.py)                   *)
(***************************************************************************)
tracker_vars ==
    <<tickers, process_buffers_task, looping_calls, events, n_add, n_add_all, n_process,
      steps>>

\* the connections there are
Clients == {"c1", "c2", "c3"}

\* the connections registered
Registered == {clients[i] : i \in 1..Len(clients)}

\* "client in self.clients"
in_clients(cl, client) == \E i \in 1..Len(cl) : cl[i] = client

\* list.remove(client): the list without the first occurrence of client
RECURSIVE list_remove(_, _)
list_remove(cl, client) ==
    IF cl = <<>> THEN <<>>
    ELSE IF Head(cl) = client THEN Tail(cl)
    ELSE <<Head(cl)>> \o list_remove(Tail(cl), client)

\* mutant of register: the client is appended whether it is registered or not
register_appends_always(client) ==
    /\ clients' = Append(clients, client)
    /\ raised' = "None"
    /\ broadcasts' = <<>>
    /\ sent' = <<>>
    /\ UNCHANGED tracker_vars

\* CoinStreamServerFactory.register
register(client) ==
    /\ clients' = IF ~in_clients(clients, client) THEN Append(clients, client) ELSE clients
    /\ raised' = "None"
    /\ broadcasts' = <<>>
    /\ sent' = <<>>
    /\ UNCHANGED tracker_vars

\* CoinStreamServerFactory.unregister
unregister(client) ==
    /\ clients' = IF in_clients(clients, client) THEN list_remove(clients, client)
                  ELSE clients
    /\ raised' = "None"
    /\ broadcasts' = <<>>
    /\ sent' = <<>>
    /\ UNCHANGED tracker_vars

\* str.encode('utf8'): the bytes of a text
encode(message) == PyBytes(message.val)

\* CoinStreamProtocol.connectionLost of a connection, on the list cl: it calls
\* factory.unregister(self)
connectionLost(cl, client) ==
    IF in_clients(cl, client) THEN list_remove(cl, client) ELSE cl

\* CoinStreamServerFactory.broadcast, the loop "for client in self.clients:
\* client.sendMessage(message.encode('utf8'))" with the list iterator at position
\* i of the list cl, which is self.clients itself and not a copy; done are the
\* payloads sent so far.  failing: the connections whose sendMessage raises.
\* losing: the connections whose sendMessage finds the connection gone and ends in
\* their connectionLost, which takes them off the list under the iterator.  The
\* result is the exception that leaves the loop, if any, the payloads sent and the
\* list as the loop leaves it.
RECURSIVE broadcast_loop(_, _, _, _, _, _)
broadcast_loop(cl, i, message, failing, losing, done) ==
    IF i > Len(cl) THEN [raised |-> "None", sent |-> done, clients |-> cl]
    ELSE IF message.type # "str"
    THEN [raised |-> "AttributeError", sent |-> done, clients |-> cl]
    ELSE IF cl[i] \in failing
    THEN [raised |-> "Disconnected", sent |-> done, clients |-> cl]
    ELSE IF cl[i] \in losing
    THEN broadcast_loop(connectionLost(cl, cl[i]), i + 1, message, failing, losing, done)
    ELSE broadcast_loop(cl, i + 1, message, failing, losing,
                        Append(done, <<cl[i], encode(message)>>))

\* CoinStreamServerFactory.broadcast, as CoinStreamProtocol.onMessage calls it
broadcast(message, failing, losing) ==
    /\ LET r == broadcast_loop(clients, 1, message, failing, losing, <<>>)
       IN  /\ raised' = r.raised
           /\ sent' = r.sent
           /\ clients' = r.clients
    /\ broadcasts' = <<message>>
    /\ UNCHANGED tracker_vars

(***************************************************************************)
(* create_envelope (src/coinsnake/message.py) and EventDispatcher          *)
(* (src/coinsnake/event.py).  A dict is a function from its keys to Python *)
(* values.  A text handed to broadcast is held as what a JSON parser makes *)
(* of it: the object it denotes, or invalid for a text that is no JSON.    *)
(***************************************************************************)
PyDict(d) == [type |-> "dict", val |-> d]
PyList(l) == [type |-> "list", val |-> l]
EmptyDict == [k \in {} |-> PyNone]

\* d[k] = v and del d[k]
dict_set(d, k, v) == [x \in DOMAIN d \cup {k} |-> IF x = k THEN v ELSE d[x]]
dict_del(d, k) == [x \in DOMAIN d \ {k} |-> d[x]]

\* the values datetime.utcnow().timestamp() returns
Timestamps == {10}

\* mutant of create_envelope: the event and message fields are set unconditionally
create_envelope_overwrites(payload, now) ==
    LET stamped == dict_set(payload, "timestamp", PyFloat(now))
        labelled == dict_set(stamped, "event", PyStr("cs.unknown"))
    IN  dict_set(labelled, "message", PyNone)

\* create_envelope
create_envelope(payload, now) ==
    LET stamped == dict_set(payload, "timestamp", PyFloat(now))
        labelled == IF "event" \notin DOMAIN stamped
                    THEN dict_set(stamped, "event", PyStr("cs.unknown"))
                    ELSE stamped
    IN  IF "message" \notin DOMAIN labelled
        THEN dict_set(labelled, "message", PyNone)
        ELSE labelled

\* json.dumps of one value: None becomes null, a str a string, a float or an int
\* a number, a list an array
RECURSIVE json_value(_)
json_value(v) ==
    CASE v.type = "NoneType" -> [json |-> "null", val |-> "null"]
      [] v.type = "str" -> [json |-> "string", val |-> v.val]
      [] v.type \in {"float", "int"} -> [json |-> "number", val |-> v.val]
      [] v.type = "list" ->
            [json |-> "array", val |-> [i \in 1..Len(v.val) |-> json_value(v.val[i])]]

\* json.dumps(payload): the text of the object with the payload's keys
json_dumps(payload) ==
    PyStr([json |-> "object", val |-> [k \in DOMAIN payload |-> json_value(payload[k])]])

\* the text CoinStreamProtocol.onMessage broadcasts, "<payload> from <peer>": no
\* JSON, denoting no fields
Messages == {PyStr([json |-> "invalid", val |-> EmptyDict])}

\* the result of a handler that raises before it broadcasts
Raises(exception) == [raised |-> exception, broadcasts |-> <<>>, sent |-> <<>>]

\* EventDispatcher._handle_event: what the call raises, hands to broadcast and
\* sends.  The handlers are called with sends that go through or raise; a
\* connection lost under a send is met by the broadcast of onMessage alone.
_handle_event(payload, now, failing) ==
    IF payload.type # "dict" THEN Raises("ValueError")
    ELSE LET message == json_dumps(create_envelope(payload.val, now))
             r == broadcast_loop(clients, 1, message, failing, {}, <<>>)
         IN  [raised |-> r.raised, broadcasts |-> <<message>>, sent |-> r.sent]

\* str.split(sep) of a text held as a sequence of characters: cur is the part being
\* read, parts the parts read before it
RECURSIVE split_from(_, _, _, _, _)
split_from(s, sep, i, cur, parts) ==
    IF i > Len(s) THEN Append(parts, cur)
    ELSE IF s[i] = sep THEN split_from(s, sep, i + 1, <<>>, Append(parts, cur))
    ELSE split_from(s, sep, i + 1, Append(cur, s[i]), parts)
split(s, sep) == split_from(s, sep, 1, <<>>, <<>>)

\* mutant of handle_ticker: the event label is not looked at
handle_ticker_any_label(ticker_label, ticker_string, kwargs, now, failing) ==
    LET parts == split(ticker_label, "_")
    IN  IF Len(parts) # 2 THEN Raises("ValueError")
        ELSE _handle_event(PyDict([event |-> PyStr("cs.ticker.update"),
                                   ticker |-> PyStr(parts[2]),
                                   ticker_string |-> ticker_string,
                                   currency |-> PyStr(parts[1]),
                                   message |-> PyStr("ticker updated")]),
                           now, failing)

\* EventDispatcher.handle_ticker
handle_ticker(ticker_label, ticker_string, kwargs, now, failing) ==
    LET event == IF "event_label" \in DOMAIN kwargs THEN kwargs["event_label"]
                 ELSE PyStr("cs.ticker.update")
        parts == split(ticker_label, "_")
    IN  IF event.type # "str" \/ event.val # "cs.ticker.update" THEN Raises("ValueError")
        \* currency, ticker = ticker_label.split('_')
        ELSE IF Len(parts) # 2 THEN Raises("ValueError")
        ELSE _handle_event(PyDict([event |-> PyStr("cs.ticker.update"),
                                   ticker |-> PyStr(parts[2]),
                                   ticker_string |-> ticker_string,
                                   currency |-> PyStr(parts[1]),
                                   message |-> PyStr("ticker updated")]),
                           now, failing)

\* repr(a) of a str
repr(a) == PyStr(<<"'", a.val, "'">>)

\* EventDispatcher.handle_generic_event
handle_generic_event(args, kwargs, now, failing) ==
    LET event == IF "event_label" \in DOMAIN kwargs THEN kwargs["event_label"]
                 ELSE PyStr("cs.unknown")
        labelled == dict_set(kwargs, "event", event)
        unlabelled == dict_del(labelled, "event_label")
        detailed == IF args # <<>>
                    THEN dict_set(unlabelled, "details",
                                  PyList([i \in 1..Len(args) |-> repr(args[i])]))
                    ELSE unlabelled
    IN  \* del kwargs['event_label']
        IF "event_label" \notin DOMAIN labelled THEN Raises("KeyError")
        ELSE IF event.type # "str" THEN Raises("ValueError")
        ELSE _handle_event(PyDict(detailed), now, failing)

\* a call of one of the dispatcher's methods, with the result the method gives
dispatch(result) ==
    /\ raised' = result.raised
    /\ broadcasts' = result.broadcasts
    /\ sent' = result.sent
    /\ UNCHANGED clients
    /\ UNCHANGED tracker_vars

\* PriceTracker.__init__
Init ==
    /\ tickers = <<>>
    /\ process_buffers_task = "None"
    /\ looping_calls = 0
    /\ raised = "None"
    /\ events = <<>>
    /\ n_add = 0
    /\ n_add_all = 0
    /\ n_process = 0
    /\ steps = <<>>
    /\ clients = <<>>
    /\ broadcasts = <<>>
    /\ sent = <<>>

Next ==
    \/ \E a \in AddArgs : add(a[1], a[2], a[3])
    \/ /\ n_process = 0
       /\ \E ticker_label \in Labels, prices \in SourcePrices, interval \in Intervals :
             add_all(ticker_label, prices, interval)
    \/ \E ticker_label \in Labels : get(ticker_label)
    \/ start
    \/ stop
    \/ process_buffers

Spec == Init /\ [][Next]_vars

\* the tracker and a client that records ticks on the series themselves
NextSeries ==
    \/ \E a \in AddArgs : add(a[1], a[2], a[3])
    \/ \E ticker_label \in Labels, t \in SeriesTicks : series_add(ticker_label, t[1], t[2])
    \/ start
    \/ stop
    \/ process_buffers

SpecSeries == Init /\ [][NextSeries]_vars


\* str(PriceHistory), the second argument of a cs.ticker.update event
TickerString == PyStr("B_E: 2.00000000")

\* the keyword arguments handle_ticker is called with: none, the label fire() passes
\* (event_label='cs.ticker.update'), and the label of another event
TickerKwargs ==
    <<EmptyDict,
      [event_label |-> PyStr("cs.ticker.update")],
      [event_label |-> PyStr("cs.message")]>>

\* the (args, kwargs) handle_generic_event is called with: the two notices of
\* process_buffers, a call with a positional argument, a label that is no str, calls
\* without a label, and a call that brings an event field of its own
GenericCalls ==
    << <<<<>>, [event_label |-> PyStr("cs.ticker.processing_buffers")]>>,
       <<<<>>, [event_label |-> PyStr("cs.message"),
                message |-> PyStr("Price buffer processing took 0.001 seconds.")]>>,
       <<<<PyStr("x")>>, [event_label |-> PyStr("cs.hello")]>>,
       <<<<>>, [event_label |-> PyInt(7)]>>,
       <<<<>>, [message |-> PyStr("m")]>>,
       <<<<>>, EmptyDict>>,
       <<<<>>, [event_label |-> PyStr("cs.message"), event |-> PyStr("cs.error")]>> >>

\* the payloads _handle_event is called with: dicts with and without event, message
\* and timestamp fields, and a payload that is no dict
Payloads ==
    <<PyDict([event |-> PyStr("cs.hello"), message |-> PyStr("hi")]),
      PyDict([event |-> PyStr("cs.hello")]),
      PyDict([message |-> PyStr("hi")]),
      PyDict(EmptyDict),
      PyDict([event |-> PyStr("cs.hello"), timestamp |-> PyFloat(5)]),
      PyDict([event |-> PyStr("cs.user_count"), count |-> PyInt(3)]),
      PyStr("cs.hello")>>

\* the dispatcher on top of the stream server
NextServer ==
    \/ \E client \in Clients : register(client)
    \/ \E client \in Clients : unregister(client)
    \/ \E message \in Messages, failing \in SUBSET Registered :
          \E losing \in SUBSET (Registered \ failing) : broadcast(message, failing, losing)
    \/ \E ticker_label \in Labels, i \in 1..Len(TickerKwargs), now \in Timestamps,
          failing \in SUBSET Registered :
             dispatch(handle_ticker(ticker_label, TickerString, TickerKwargs[i], now, failing))
    \/ \E i \in 1..Len(GenericCalls), now \in Timestamps, failing \in SUBSET Registered :
             dispatch(handle_generic_event(GenericCalls[i][1], GenericCalls[i][2], now, failing))
    \/ \E i \in 1..Len(Payloads), now \in Timestamps, failing \in SUBSET Registered :
             dispatch(_handle_event(Payloads[i], now, failing))

SpecServer == Init /\ [][NextServer]_vars

(***************************************************************************)
(* Properties                                                              *)
(***************************************************************************)
LastOf(q) == q[Len(q)]
IsPrefix(p, q) == Len(p) <= Len(q) /\ SubSeq(q, 1, Len(p)) = p
BufferPrices(buf) == {buf[i][1] : i \in 1..Len(buf)}
MaxOf(S) == CHOOSE x \in S : \A y \in S : y <= x
MinOf(S) == CHOOSE x \in S : \A y \in S : x <= y
RECURSIVE SumVolumes(_)
SumVolumes(buf) == IF buf = <<>> THEN 0 ELSE buf[1][2].val + SumVolumes(Tail(buf))
ProcessingNotices ==
    <<notice("cs.ticker.processing_buffers"), notice("cs.message")>>

\* C1: a timer firing appends, for every series with a non-empty buffer, the candle
\* (high, low, open, close, volume) whose open is the first buffered price, close
\* the last one, high the greatest and low the least buffered price, and volume
\* the sum of the buffered volumes; so low <= open, close <= high.
C1_CandleOfBuffer ==
    [][process_buffers =>
        \A l \in DOMAIN tickers :
            LET buf == tickers[l].buffer
                c == LastOf(tickers'[l].history)
            IN  buf # <<>> =>
                /\ tickers'[l].history = Append(tickers[l].history, c)
                /\ c[3] = buf[1][1]
                /\ c[4] = buf[Len(buf)][1]
                /\ c[1] = MaxOf(BufferPrices(buf))
                /\ c[2] = MinOf(BufferPrices(buf))
                /\ c[5] = <<SumVolumes(buf), 1>>
                /\ c[2] <= c[3] /\ c[3] <= c[1]
                /\ c[2] <= c[4] /\ c[4] <= c[1]]_vars

\* C1 witness: a firing has just made a candle from three ticks, whose high, open
\* and low all differ and whose close is not its open
C1_Witness ==
    /\ events = ProcessingNotices
    /\ n_add_all = 0
    /\ \E l \in DOMAIN tickers :
          /\ tickers[l].buffer = <<>>
          /\ tickers[l].history # <<>>
          /\ LET c == LastOf(tickers[l].history)
             IN  c[1] > c[3] /\ c[3] > c[2] /\ c[4] # c[3]

\* C2: every flush of a series lengthens its history by exactly one candle and
\* leaves its buffer empty; when the buffer was empty the candle appended is
\* (last, last, last, last, 0.0).
C2_FlushAppendsOne ==
    [][process_buffers =>
        \A l \in DOMAIN tickers :
            /\ Len(tickers'[l].history) = Len(tickers[l].history) + 1
            /\ tickers'[l].buffer = <<>>
            /\ tickers[l].buffer = <<>> =>
                  LET last == tickers[l].last
                  IN  LastOf(tickers'[l].history) = <<last, last, last, last, <<0, 1>>>>]_vars

\* C2 witness: a firing has flushed a series with an empty buffer and another with
\* a non-empty one
C2_Witness ==
    /\ events = ProcessingNotices
    /\ \E l, m \in DOMAIN tickers :
          /\ tickers[l].history # <<>> /\ tickers[m].history # <<>>
          /\ LastOf(tickers[l].history)[5] = <<0, 1>>
          /\ LastOf(tickers[m].history)[5] = <<3, 1>>
          /\ tickers[l].buffer = <<>> /\ tickers[m].buffer = <<>>

\* a step of an operation other than add_all
OtherThanAddAll ==
    \/ \E a \in AddArgs : add(a[1], a[2], a[3])
    \/ \E ticker_label \in Labels : get(ticker_label)
    \/ start
    \/ stop
    \/ process_buffers

\* C3: every operation other than add_all keeps every series, and the history of
\* a series before the operation is a prefix of its history after it.
C3_HistoryAppendOnly ==
    [][OtherThanAddAll =>
        \A l \in DOMAIN tickers :
            /\ l \in DOMAIN tickers'
            /\ IsPrefix(tickers[l].history, tickers'[l].history)]_vars

\* C3 witness: a series that was backfilled and then flushed twice, with ticks in
\* between, holds the backfilled candles and two more
C3_Witness ==
    /\ n_add_all = 1
    /\ n_process = 2
    /\ n_add >= 2
    /\ \E l \in DOMAIN tickers :
          /\ Len(tickers[l].history) = 7
          /\ SubSeq(tickers[l].history, 1, 5) = duplicate(CandleA, 5)

WellTyped(a) == a[1].type = "str" /\ a[2].type = "float" /\ a[3].type = "float"

\* C4: add with a negative price or a negative volume fails with an InvalidValue
\* error and the tick is not applied: buffer and last price of the series are as
\* before and no cs.ticker.update event is fired.
C4_NegativeTickRejected ==
    [][\A a \in AddArgs :
          (WellTyped(a) /\ (a[2].val < 0 \/ a[3].val < 0) /\ add(a[1], a[2], a[3])) =>
              /\ raised' = "InvalidValue"
              /\ events' = <<>>
              /\ \A l \in DOMAIN tickers :
                    /\ tickers'[l].buffer = tickers[l].buffer
                    /\ tickers'[l].last = tickers[l].last]_vars

\* C5: labels that differ only in letter case name one series: the table never
\* holds two keys with the same upper-case form.
C5_OneSeriesPerInstrument ==
    \A l, m \in DOMAIN tickers : Upper(l) = Upper(m) => l = m

\* C6: every add with a string label and float price and volume leaves the series
\* registered, with the tick appended to its buffer and last set to the price, and
\* fires exactly one cs.ticker.update for the label, built after the update (its
\* string shows the new last price).
C6_AcceptedIngestEmits ==
    [][\A a \in AddArgs :
          (WellTyped(a) /\ add(a[1], a[2], a[3])) =>
              LET l == a[1].val
                  before == IF l \in DOMAIN tickers THEN tickers[l].buffer ELSE <<>>
              IN  /\ l \in DOMAIN tickers'
                  /\ tickers'[l].buffer = Append(before, <<a[2].val, a[3]>>)
                  /\ tickers'[l].last = a[2].val
                  /\ Len(events') = 1
                  /\ events'[1].event = "cs.ticker.update"
                  /\ events'[1].args[1] = l
                  /\ events'[1].args[2].last = a[2].val]_vars

\* C7: in every reachable state the changes of every series are a tuple of as many
\* values as there are intervals (8), all 0.0 when the history holds 0 or 1 candles.
C7_ChangesLength ==
    \A l \in DOMAIN tickers :
        LET c == changes(tickers[l])
        IN  /\ c.raised = "None"
            /\ Len(c.value) = Len(CHANGE_INTERVALS)
            /\ Len(CHANGE_INTERVALS) = 8
            /\ Len(tickers[l].history) < 2 =>
                  \A i \in 1..Len(c.value) : c.value[i] = <<0, 1>>

\* the horizon of position i for a history of n >= 1 candles: the i-th interval if
\* the history reaches it, else the largest interval the history reaches
HorizonAt(i, n) ==
    IF CHANGE_INTERVALS[i] <= n THEN CHANGE_INTERVALS[i]
    ELSE MaxOf({CHANGE_INTERVALS[j] : j \in 1..Len(CHANGE_INTERVALS)} \cap 1..n)

\* the closing price position i of the changes refers to
HorizonClose(ph, i) ==
    ph.history[Len(ph.history) + 1 - HorizonAt(i, Len(ph.history))][4]

\* C8: for a series of at least 2 candles the change at position i is
\* (last - close) * 100 / close, close being that of history[-h] for the horizon h
\* of position i; the division raises exactly when such a close is 0.
C8_ChangeAtHorizon ==
    \A l \in DOMAIN tickers :
        LET ph == tickers[l]
            c == changes(ph)
            I == 1..Len(CHANGE_INTERVALS)
        IN  Len(ph.history) >= 2 =>
            /\ c.raised = "None" <=> \A i \in I : HorizonClose(ph, i) # 0
            /\ c.raised = "None" =>
                  /\ DOMAIN c.value = I
                  /\ \A i \in I :
                        /\ c.value[i][2] > 0
                        /\ c.value[i][1] * HorizonClose(ph, i) =
                              (ph.last - HorizonClose(ph, i)) * 100 * c.value[i][2]

\* C8 witness: a history of at least 5 candles whose change over 5 intervals differs
\* from that over 1 interval, the longer intervals falling back to 5
C8_Witness ==
    \E l \in DOMAIN tickers :
        LET c == changes(tickers[l])
        IN  /\ Len(tickers[l].history) >= 5
            /\ c.raised = "None"
            /\ c.value[2] # c.value[1]
            /\ c.value[8] = c.value[2]
            /\ c.value[1] # <<0, 1>>

\* C9: a closing price of 0 under a horizon makes the change of that horizon 0.0 and
\* raises nothing: no call ends in ZeroDivisionError.
C9_ZeroCloseGuarded ==
    /\ raised # "ZeroDivisionError"
    /\ \A l \in DOMAIN tickers :
          LET ph == tickers[l]
              c == changes(ph)
          IN  Len(ph.history) >= 2 =>
                 \A i \in 1..Len(CHANGE_INTERVALS) :
                     HorizonClose(ph, i) = 0 => c.raised = "None" /\ c.value[i] = <<0, 1>>

\* C10: add_all with n source candles and an interval of k flush intervals (k >= 1)
\* replaces the history with n * k candles in source order: every copy carries the
\* high, low and open of its source and 1/k of its volume, and closes at the
\* source's open, except the last copy of a source, which closes at its close.
C10_BackfillExpansion ==
    [][\A l \in Labels, prices \in SourcePrices, interval \in Intervals :
          (/\ interval >= PRICE_HISTORY_RESOLUTION
           /\ interval % PRICE_HISTORY_RESOLUTION = 0
           /\ add_all(l, prices, interval)) =>
              LET k == interval \div PRICE_HISTORY_RESOLUTION
                  h == tickers'[l].history
              IN  /\ Len(h) = Len(prices) * k
                  /\ \A j \in 1..Len(h) :
                        LET src == prices[((j - 1) \div k) + 1]
                        IN  /\ h[j][1] = src[1]
                            /\ h[j][2] = src[2]
                            /\ h[j][3] = src[3]
                            /\ h[j][4] = IF j % k = 0 THEN src[4] ELSE src[3]
                            /\ h[j][5][2] > 0
                            /\ h[j][5][1] * k = src[5] * h[j][5][2]]_vars

\* C10 witness: a backfill of two source candles at five flush intervals each has
\* just been imported
C10_Witness ==
    /\ n_add_all = 1
    /\ n_process = 0
    /\ raised = "None"
    /\ Len(events) = 1
    /\ \E l \in DOMAIN tickers :
          /\ Len(tickers[l].history) = 10
          /\ events[1].args[1] = l
          /\ tickers[l].history[5][4] = 0
          /\ tickers[l].history[5][5] = <<1, 5>>

\* C11: add_all with an interval that is not a positive multiple of the flush
\* interval, or with no source candles, raises an error and is not applied: no
\* event is fired and no series that exists changes its history or last price.
C11_BackfillRejected ==
    [][\A l \in Labels, prices \in SourcePrices, interval \in Intervals :
          (/\ \/ interval < PRICE_HISTORY_RESOLUTION
              \/ interval % PRICE_HISTORY_RESOLUTION # 0
              \/ prices = <<>>
           /\ add_all(l, prices, interval)) =>
              /\ raised' # "None"
              /\ events' = <<>>
              /\ \A m \in DOMAIN tickers :
                    /\ tickers'[m].history = tickers[m].history
                    /\ tickers'[m].last = tickers[m].last]_vars

\* C12: at most one LoopingCall is ever armed; start with one armed and stop with
\* none armed raise nothing and change neither the task nor the number armed; every
\* firing is one run of process_buffers.
C12_StartStopIdempotent ==
    [][/\ looping_calls' <= 1
       /\ (start /\ looping_calls = 1) =>
             /\ UNCHANGED <<process_buffers_task, looping_calls>>
             /\ raised' = "None"
       /\ (stop /\ looping_calls = 0) =>
             /\ UNCHANGED <<process_buffers_task, looping_calls>>
             /\ raised' = "None"
       /\ process_buffers => n_process' = n_process + 1]_vars

\* C12 witness: the timer is still armed, once, after both firings and a later call
\* of start, stop or get
C12_Witness ==
    /\ looping_calls = 1
    /\ process_buffers_task = "running"
    /\ n_process = MaxProcess
    /\ events = <<>>
    /\ raised = "None"

\* a step that is neither start, stop nor a timer firing
NoSchedulerStep ==
    \/ \E a \in AddArgs : add(a[1], a[2], a[3])
    \/ \E ticker_label \in Labels, t \in SeriesTicks : series_add(ticker_label, t[1], t[2])

\* C13: the scheduler is Stopped (no LoopingCall armed, the initial state) or
\* Running (one armed, held by the task): start arms a timer whenever none is
\* armed, stop disarms the armed one, a firing happens only with one armed and
\* leaves it armed, whether it raises or not, and no other step changes it.
C13_TwoStateScheduler ==
    [][/\ looping_calls' \in {0, 1}
       /\ looping_calls' = 1 <=> process_buffers_task' = "running"
       /\ looping_calls' = 0 <=> process_buffers_task' = "None"
       /\ start => looping_calls' = 1
       /\ stop => looping_calls' = 0
       /\ process_buffers => looping_calls = 1 /\ looping_calls' = 1
       /\ NoSchedulerStep => UNCHANGED <<process_buffers_task, looping_calls>>]_vars

\* C14: every timer firing flushes every series whose flush does not fail, fires the
\* closing cs.message notice, raises nothing and leaves the timer armed.
C14_SweepCompletes ==
    [][process_buffers =>
          /\ \A l \in DOMAIN tickers :
                ~process_buffer_raises(tickers[l]) => tickers'[l] = process_buffer(tickers[l])
          /\ events' # <<>> /\ LastOf(events') = notice("cs.message")
          /\ raised' = "None"
          /\ looping_calls' = looping_calls]_vars

\* C20: add and add_all leave every series other than the one they name as it is,
\* and a timer firing appends to every series a candle that opens and closes at the
\* first and last price of that series' own buffer and sums its own volumes (or is
\* flat at its own last price).
C20_SeriesIsolated ==
    [][/\ \A a \in AddArgs :
             add(a[1], a[2], a[3]) =>
                 \A m \in DOMAIN tickers : m # a[1].val => tickers'[m] = tickers[m]
       /\ \A l \in Labels, prices \in SourcePrices, interval \in Intervals :
             add_all(l, prices, interval) =>
                 \A m \in DOMAIN tickers : m # l => tickers'[m] = tickers[m]
       /\ process_buffers =>
             \A m \in DOMAIN tickers :
                 LET buf == tickers[m].buffer
                     c == LastOf(tickers'[m].history)
                 IN  /\ tickers'[m].history = Append(tickers[m].history, c)
                     /\ tickers'[m].last = tickers[m].last
                     /\ tickers'[m].ticker = tickers[m].ticker
                     /\ IF buf = <<>> THEN c = flat_candle(tickers[m].last)
                        ELSE /\ c[3] = buf[1][1]
                             /\ c[4] = buf[Len(buf)][1]
                             /\ c[5] = <<SumVolumes(buf), 1>>]_vars

\* C20 witness: a firing has just flushed two series that had been given different
\* ticks, two for one and one for the other
C20_Witness ==
    /\ events = ProcessingNotices
    /\ n_add = 3
    /\ \E l, m \in DOMAIN tickers :
          /\ l # m
          /\ tickers[l].history # <<>> /\ tickers[m].history # <<>>
          /\ LastOf(tickers[l].history) = <<2, 0, 0, 2, <<3, 1>>>>
          /\ LastOf(tickers[m].history) = <<-1, -1, -1, -1, <<-1, 1>>>>

NoDuplicates(cl) == \A i, j \in 1..Len(cl) : cl[i] = cl[j] => i = j

\* C15: the list of clients never holds a connection twice; register leaves the
\* connection registered, and the list as it was when it already was; unregister
\* leaves it unregistered, and is a no-op without error when it was not.
C15_SubscribersOnce ==
    [][/\ NoDuplicates(clients')
       /\ \A c \in Clients :
             /\ register(c) => in_clients(clients', c)
             /\ (register(c) /\ in_clients(clients, c)) => clients' = clients
             /\ unregister(c) => ~in_clients(clients', c)
             /\ (unregister(c) /\ ~in_clients(clients, c)) =>
                   clients' = clients /\ raised' = "None"]_vars

\* C15 witness: all three connections are registered, each once, c1 last
C15_Witness ==
    /\ clients = <<"c2", "c3", "c1">>
    /\ broadcasts = <<>>
    /\ raised = "None"

\* C16: broadcast raises nothing and sends the payload to every registered
\* connection whose send does not fail, whatever sends fail; with nobody registered
\* it sends nothing.
C16_BroadcastReachesAll ==
    [][\A message \in Messages, failing \in SUBSET Registered :
          broadcast(message, failing, {}) =>
              /\ raised' = "None"
              /\ \A i \in 1..Len(clients) :
                    clients[i] \notin failing =>
                        \E j \in 1..Len(sent') : sent'[j] = <<clients[i], encode(message)>>
              /\ clients = <<>> => sent' = <<>>]_vars

\* the fields of the envelope the last call handed to broadcast
Envelope(message) == message.val.val

\* C17 as claimed: _handle_event hands broadcast one envelope with an event, a
\* timestamp and a message field, the message null unless the payload had one, and
\* with every field of the payload unchanged.
C17_EnvelopeKeepsEveryField ==
    [][\A i \in 1..Len(Payloads), now \in Timestamps, failing \in SUBSET Registered :
          (/\ Payloads[i].type = "dict"
           /\ dispatch(_handle_event(Payloads[i], now, failing))) =>
              LET payload == Payloads[i].val
                  env == Envelope(broadcasts'[1])
              IN  /\ Len(broadcasts') = 1
                  /\ DOMAIN env = DOMAIN payload \cup {"event", "timestamp", "message"}
                  /\ "message" \notin DOMAIN payload => env["message"].json = "null"
                  /\ \A k \in DOMAIN payload : env[k] = json_value(payload[k])]_vars

\* C17: _handle_event hands broadcast one envelope with an event, a timestamp and a
\* message field; the timestamp is the time of the call, the message null unless
\* the payload had one, the event cs.unknown unless the payload had one, and every
\* field of the payload other than timestamp is unchanged.
C17_EnvelopeStamped ==
    [][\A i \in 1..Len(Payloads), now \in Timestamps, failing \in SUBSET Registered :
          (/\ Payloads[i].type = "dict"
           /\ dispatch(_handle_event(Payloads[i], now, failing))) =>
              LET payload == Payloads[i].val
                  env == Envelope(broadcasts'[1])
              IN  /\ Len(broadcasts') = 1
                  /\ DOMAIN env = DOMAIN payload \cup {"event", "timestamp", "message"}
                  /\ env["timestamp"] = json_value(PyFloat(now))
                  /\ "message" \notin DOMAIN payload => env["message"].json = "null"
                  /\ "event" \notin DOMAIN payload =>
                        env["event"] = json_value(PyStr("cs.unknown"))
                  /\ \A k \in DOMAIN payload \ {"timestamp"} :
                        env[k] = json_value(payload[k])]_vars

\* C17 witness: an envelope that kept the event and the count field of its payload
\* and was given a null message
C17_Witness ==
    /\ Len(broadcasts) = 1
    /\ broadcasts[1].val.json = "object"
    /\ DOMAIN Envelope(broadcasts[1]) = {"event", "count", "timestamp", "message"}
    /\ Envelope(broadcasts[1])["event"].val = "cs.user_count"
    /\ Envelope(broadcasts[1])["message"].json = "null"

\* C18: handle_ticker called with an event label other than cs.ticker.update, and
\* handle_generic_event called with an event label that is no string, raise
\* ValueError and hand nothing to broadcast; with any other label given (or, for
\* handle_ticker, none) the call hands exactly one message to broadcast.
C18_EventLabelValidated ==
    [][/\ \A l \in Labels, i \in 1..Len(TickerKwargs), now \in Timestamps,
             failing \in SUBSET Registered :
             dispatch(handle_ticker(l, TickerString, TickerKwargs[i], now, failing)) =>
                 IF /\ "event_label" \in DOMAIN TickerKwargs[i]
                    /\ TickerKwargs[i]["event_label"] # PyStr("cs.ticker.update")
                 THEN raised' = "ValueError" /\ broadcasts' = <<>> /\ sent' = <<>>
                 ELSE Len(broadcasts') = 1
       /\ \A i \in 1..Len(GenericCalls), now \in Timestamps, failing \in SUBSET Registered :
             (/\ "event_label" \in DOMAIN GenericCalls[i][2]
              /\ dispatch(handle_generic_event(GenericCalls[i][1], GenericCalls[i][2],
                                               now, failing))) =>
                 IF GenericCalls[i][2]["event_label"].type # "str"
                 THEN raised' = "ValueError" /\ broadcasts' = <<>> /\ sent' = <<>>
                 ELSE Len(broadcasts') = 1]_vars

\* C18 witness: a call was refused with ValueError while connections were registered
C18_Witness ==
    /\ raised = "ValueError"
    /\ broadcasts = <<>>
    /\ Len(clients) = 2

\* C19: handle_generic_event called without an event label raises nothing and hands
\* broadcast exactly one envelope, whose event field is cs.unknown.
C19_UnsetLabelDefaults ==
    [][\A i \in 1..Len(GenericCalls), now \in Timestamps :
          (/\ "event_label" \notin DOMAIN GenericCalls[i][2]
           /\ dispatch(handle_generic_event(GenericCalls[i][1], GenericCalls[i][2],
                                            now, {}))) =>
              /\ raised' = "None"
              /\ Len(broadcasts') = 1
              /\ Envelope(broadcasts'[1])["event"] = json_value(PyStr("cs.unknown"))]_vars

\* the volume a series holds: that of its candles plus that of its buffered ticks
\* (the candles of ticks carry whole volumes)
RECURSIVE CandleVolumes(_)
CandleVolumes(history) ==
    IF history = <<>> THEN 0 ELSE history[1][5][1] + CandleVolumes(Tail(history))
HeldVolume(ph) == CandleVolumes(ph.history) + SumVolumes(ph.buffer)

\* C21: as long as nothing is backfilled, every recorded tick is in exactly one
\* place, the buffer or one candle, in arrival order: an add that records a tick
\* puts it at the end of its series' buffer and raises the volume the series holds
\* (candles plus buffer) by the tick's volume; a firing turns the whole buffer of
\* every series, first tick to last, into one candle and leaves the held volume as
\* it was; no step changes a candle that exists. So the held volume always equals
\* the volume of all ticks recorded so far.
C21_TicksConserved ==
    [][n_add_all' = 0 =>
          /\ \A a \in AddArgs :
                (add(a[1], a[2], a[3]) /\ tickers' # tickers) =>
                    LET l == a[1].val
                        before == with_ticker(tickers, l)[l]
                    IN  /\ tickers'[l].buffer = Append(before.buffer, <<a[2].val, a[3]>>)
                        /\ tickers'[l].history = before.history
                        /\ HeldVolume(tickers'[l]) = HeldVolume(before) + a[3].val
                        /\ \A o \in DOMAIN tickers : o # l => tickers'[o] = tickers[o]
          /\ process_buffers =>
                \A l \in DOMAIN tickers :
                    LET buf == tickers[l].buffer
                        c == LastOf(tickers'[l].history)
                    IN  /\ tickers'[l].buffer = <<>>
                        /\ tickers'[l].history = Append(tickers[l].history, c)
                        /\ c[5] = <<SumVolumes(buf), 1>>
                        /\ buf # <<>> => c[3] = buf[1][1] /\ c[4] = buf[Len(buf)][1]
                        /\ HeldVolume(tickers'[l]) = HeldVolume(tickers[l])
          /\ \A l \in DOMAIN tickers :
                /\ l \in DOMAIN tickers'
                /\ IsPrefix(tickers[l].history, tickers'[l].history)]_vars

\* C21 witness: three ticks went into two candles of one series, one tick in the
\* first and two in the second, and the candles hold the volume of the three
C21_Witness ==
    /\ n_add_all = 0
    /\ n_add = 3
    /\ events = ProcessingNotices
    /\ \E l \in DOMAIN tickers :
          /\ tickers[l].buffer = <<>>
          /\ Len(tickers[l].history) = 2
          /\ tickers[l].history[1] = <<0, 0, 0, 0, <<1, 1>>>>
          /\ tickers[l].history[2] = <<2, -1, 2, -1, <<1, 1>>>>
          /\ HeldVolume(tickers[l]) = 2

\* C22: when connections are unregistered while broadcast walks the list (their
\* send, which raises nothing, ends in connectionLost), every connection that was
\* registered before the broadcast and still is after it gets the payload exactly
\* once.
C22_TraversalSkipsNobody ==
    [][\A message \in Messages, losing \in SUBSET Registered :
          (broadcast(message, {}, losing) /\ clients' # clients) =>
              \A i \in 1..Len(clients) :
                  in_clients(clients', clients[i]) =>
                      Cardinality({j \in 1..Len(sent') :
                                      sent'[j] = <<clients[i], encode(message)>>}) = 1]_vars

\* C23: a timer firing is one run of process_buffers, whose steps come in this
\* order: it fires cs.ticker.processing_buffers, then calls process_buffer exactly
\* once on every series registered at that moment, each of which gains exactly one
\* candle, and only then fires cs.message.
C23_SweepOrdered ==
    [][process_buffers =>
          /\ n_process' = n_process + 1
          /\ Len(steps') = 3
          /\ steps'[1].step = "fire" /\ steps'[1].of = "cs.ticker.processing_buffers"
          /\ steps'[2].step = "process_buffer"
          /\ DOMAIN steps'[2].of = DOMAIN tickers
          /\ \A l \in DOMAIN tickers :
                /\ steps'[2].of[l] = 1
                /\ Len(tickers'[l].history) = Len(tickers[l].history) + 1
          /\ DOMAIN tickers' = DOMAIN tickers
          /\ steps'[3].step = "fire" /\ steps'[3].of = "cs.message"
          /\ events' = ProcessingNotices]_vars

\* C23 witness: the second firing has just swept two registered series
C23_Witness ==
    /\ n_process = 2
    /\ Len(steps) = 3
    /\ DOMAIN steps[2].of = Labels
    /\ \A l \in Labels : Len(tickers[l].history) = 2

\* C24: add_all leaves the buffer of its series as it was (empty for a series it
\* creates) and every other series untouched, and the firing that follows appends
\* one candle made of exactly the buffered ticks after the history it finds, so
\* after a backfill of n candles at k flush intervals the history has n * k + 1
\* candles.
C24_BackfillKeepsBuffer ==
    [][/\ \A l \in Labels, prices \in SourcePrices, interval \in Intervals :
             add_all(l, prices, interval) =>
                 /\ tickers'[l].buffer = with_ticker(tickers, l)[l].buffer
                 /\ \A o \in DOMAIN tickers : o # l => tickers'[o] = tickers[o]
       /\ process_buffers =>
             \A l \in DOMAIN tickers :
                 LET buf == tickers[l].buffer
                     h == tickers'[l].history
                 IN  /\ Len(h) = Len(tickers[l].history) + 1
                     /\ \A j \in 1..Len(tickers[l].history) : h[j] = tickers[l].history[j]
                     /\ buf # <<>> =>
                           /\ LastOf(h)[3] = buf[1][1]
                           /\ LastOf(h)[4] = buf[Len(buf)][1]
                           /\ LastOf(h)[5] = <<SumVolumes(buf), 1>>]_vars

\* C24 witness: two ticks were buffered, one candle was backfilled at five flush
\* intervals, and a firing has put the candle of the two ticks behind its five
\* copies
C24_Witness ==
    /\ n_add_all = 1
    /\ n_add = 2
    /\ n_process = 1
    /\ events = ProcessingNotices
    /\ \E l \in DOMAIN tickers :
          /\ Len(tickers[l].history) = 6
          /\ tickers[l].history[5] = <<2, 0, 1, 2, <<4, 5>>>>
          /\ tickers[l].history[6] = <<2, 0, 0, 2, <<3, 1>>>>
          /\ tickers[l].buffer = <<>>

\* C25: right after a firing the newest candle of every series closes at the
\* series' last price, whatever adds, backfills and firings came before.
C25_NewestCloseIsLast ==
    [][process_buffers =>
          \A l \in DOMAIN tickers' :
              LastOf(tickers'[l].history)[4] = tickers'[l].last]_vars

\* C26: an add_all that fails, for having no source candles or an interval shorter
\* than the flush interval, changes nothing: it raises, fires no event, registers
\* no series and leaves every series as it was.
C26_FailedBackfillChangesNothing ==
    [][\A l \in Labels, prices \in SourcePrices, interval \in Intervals :
          (/\ prices = <<>> \/ interval < PRICE_HISTORY_RESOLUTION
           /\ add_all(l, prices, interval)) =>
              /\ raised' # "None"
              /\ events' = <<>>
              /\ DOMAIN tickers' = DOMAIN tickers
              /\ tickers' = tickers]_vars

====
